---------------------------- MODULE Spec2Model ----------------------------
(***************************************************************************)
(* BizTrack AI service: the three request handlers of ai_service/main.py   *)
(* (predict_category, predict_forecast, predict_insights) and the         *)
(* CashFlowForecaster of ai_service/forecaster.py.                         *)
(*                                                                         *)
(* Every handler is one atomic action: it draws a request, runs the whole  *)
(* handler body and leaves the request and what the handler produced in    *)
(* the state.  Text is a sequence of one-character strings, an Optional    *)
(* value is a record with a `some' flag, amounts and estimates are         *)
(* integers, timestamps are counted in half days.                          *)
(***************************************************************************)
EXTENDS Integers, Sequences, FiniteSets

VARIABLES
    categorizer_model,  \* main.py:18-25, the module-level classifier (or None)
    request,            \* the request being answered
    response,           \* what the handler returned, or the exception it let escape
    income_res,         \* predict_forecast's local income_res
    expense_res,        \* predict_forecast's local expense_res
    prophet_calls,      \* the Prophet(...) configurations built while answering
    raised              \* the exception raised inside the handler's body, if any

vars == <<categorizer_model, request, response, income_res, expense_res, prophet_calls,
          raised>>

----------------------------------------------------------------------------
(* Bounds of the model *)

MaxExpenses == 2    \* transactions in an Insights request
MaxAmt == 3         \* |amount| of a transaction
MaxHist == 3        \* transactions per stream of a Forecast request
MaxDays == 2        \* largest requested horizon
MaxNegDays == 2     \* the horizon ranges over -MaxNegDays..MaxDays
MaxBatch == 2       \* transactions in a Categorize request
MaxDescLen == 5     \* characters of a description

----------------------------------------------------------------------------
(* Optional values and text *)

None == [some |-> FALSE]
Some(v) == [some |-> TRUE, val |-> v]

Abs(n) == IF n < 0 THEN 0 - n ELSE n

\* Code points of the characters the model uses (Python compares str by code point).
Ord(c) ==
    CASE c = " " -> 32
      [] c = "A" -> 65
      [] c = "P" -> 80
      [] c = "a" -> 97
      [] c = "b" -> 98
      [] c = "d" -> 100
      [] c = "p" -> 112
      [] c = "u" -> 117
      [] c = "y" -> 121
      [] OTHER   -> 122

RECURSIVE StrLess(_, _)
StrLess(s, t) ==
    IF t = <<>> THEN FALSE
    ELSE IF s = <<>> THEN TRUE
    ELSE IF Ord(Head(s)) # Ord(Head(t)) THEN Ord(Head(s)) < Ord(Head(t))
    ELSE StrLess(Tail(s), Tail(t))

RECURSIVE SortedStrings(_)
SortedStrings(S) ==
    IF S = {} THEN <<>>
    ELSE LET m == CHOOSE x \in S : \A y \in S \ {x} : StrLess(x, y)
         IN  <<m>> \o SortedStrings(S \ {m})

\* the sequences over S of length at most n
SeqsUpTo(S, n) == UNION {[1..k -> S] : k \in 0..n}

----------------------------------------------------------------------------
(* main.py:36-40, Transaction.  vendor is read by no handler and is left   *)
(* out.  A date is the string as sent: a record of the day and half day it *)
(* names, or text no parser accepts.                                       *)

DateStr(d, h) == [ok |-> TRUE, day |-> d, half |-> h]
BadDate == [ok |-> FALSE]

Transaction(desc, amt, date) == [description |-> desc, amount |-> amt, date |-> date]

Unset == [set |-> FALSE]
NoResponse == [status |-> "none", keys |-> {}]
\* an exception no handler caught: it leaves the handler
Escaped(exc) == [status |-> "escaped", keys |-> {}, exc |-> exc]

\* the service answers one request at a time
Idle == request.op = "none"

----------------------------------------------------------------------------
(* predict_insights, main.py:141-179 *)

InsightKeys == {<<"a">>, <<"b">>}
InsightDescriptions == {Some(k) : k \in InsightKeys} \cup {None}
Amounts == (0 - MaxAmt)..MaxAmt

ExpenseTransactions ==
    {Transaction(d, a, DateStr(0, 0)) : d \in InsightDescriptions, a \in Amounts}

RECURSIVE SumAmounts(_)
SumAmounts(txs) ==
    IF txs = <<>> THEN 0 ELSE Head(txs).amount + SumAmounts(Tail(txs))

\* df.groupby('description')['amount'].sum().to_dict(): rows whose key is missing
\* are dropped, the keys come out sorted.
GroupKeys(hist) ==
    SortedStrings({hist[i].description.val :
                      i \in {j \in DOMAIN hist : hist[j].description.some}})

CategorySum(hist, cat) ==
    SumAmounts(SelectSeq(hist, LAMBDA t : t.description = Some(cat)))

RECURSIVE SumOver(_, _)
SumOver(hist, keys) ==
    IF keys = <<>> THEN 0
    ELSE CategorySum(hist, Head(keys)) + SumOver(hist, Tail(keys))

\* amt > total * 0.3 (on the integer amounts of the model the float comparison
\* agrees with 10*amt > 3*total)
OverThreshold(amt, total) == 10 * amt > 3 * total

\* f"{(amt/total*100):.1f}": tenths of a percent, rounded to nearest; total # 0
PercentTenths(amt, total) ==
    LET sgn == IF (amt < 0) = (total < 0) THEN 1 ELSE 0 - 1
        q   == (2000 * Abs(amt) + Abs(total)) \div (2 * Abs(total))
    IN  sgn * q

AnomalyInsight(cat, amt, total) ==
    [type |-> "anomaly", category |-> Some(cat), severity |-> Some("medium"),
     percent |-> Some(PercentTenths(amt, total))]

InfoInsight ==
    [type |-> "info", category |-> None, severity |-> None, percent |-> None]

RECURSIVE AnomalyLoop(_, _, _)
AnomalyLoop(hist, keys, total) ==
    IF keys = <<>> THEN <<>>
    ELSE LET cat == Head(keys)
             amt == CategorySum(hist, cat)
             rest == AnomalyLoop(hist, Tail(keys), total)
         IN  IF OverThreshold(amt, total)
             THEN <<AnomalyInsight(cat, amt, total)>> \o rest
             ELSE rest

\* the loop evaluates amt/total for the first category it flags
InsightsRaises(hist, keys, total) ==
    /\ total = 0
    /\ \E i \in DOMAIN keys : OverThreshold(CategorySum(hist, keys[i]), total)

InsightsOk(insights) == [status |-> "returned", keys |-> {"insights"}, insights |-> insights]
InsightsError(exc) ==
    [status |-> "returned", keys |-> {"error", "insights"}, error |-> exc, insights |-> <<>>]

\* main.py:178-179, except Exception as e
InsightsExcept(exc) == InsightsError(exc)

\* main.py:148-177, the body of the try: the exception it raises, or None
InsightsRaised(hist) ==
    IF hist # <<>> /\ InsightsRaises(hist, GroupKeys(hist), SumOver(hist, GroupKeys(hist)))
    THEN Some("ZeroDivisionError")
    ELSE None

InsightsBody(hist) ==
    IF hist = <<>> THEN InsightsOk(<<>>)
    ELSE LET keys == GroupKeys(hist)
             total == SumOver(hist, keys)
             found == AnomalyLoop(hist, keys, total)
         IN  InsightsOk(IF found = <<>> THEN <<InfoInsight>> ELSE found)

ExpenseHistories == SeqsUpTo(ExpenseTransactions, MaxExpenses)

PredictInsights ==
    /\ Idle
    /\ \E hist \in ExpenseHistories :
        /\ request' = [op |-> "insights", business_id |-> "b1", expense_history |-> hist]
        /\ \E exc \in {InsightsRaised(hist)} :
              /\ raised' = exc
              /\ response' = IF exc.some THEN InsightsExcept(exc.val) ELSE InsightsBody(hist)
        /\ income_res' = Unset
        /\ expense_res' = Unset
        /\ prophet_calls' = <<>>
        /\ UNCHANGED categorizer_model

----------------------------------------------------------------------------
(* CashFlowForecaster, forecaster.py:7-66.  Prophet is the delegated       *)
(* capability: what it estimates is not the program's to decide, so a      *)
(* fitted model is one of a few shapes of estimates, drawn per call.       *)

YearDays == 365

\* pd.to_datetime of one date string, in half days since the epoch
ToDatetime(d) == 2 * d.day + d.half

MaxOf(S) == CHOOSE x \in S : \A y \in S : y <= x
MinOf(S) == CHOOSE x \in S : \A y \in S : x <= y

Stamps(ds) == {ds[i] : i \in DOMAIN ds}

\* (historical_data['ds'].max() - historical_data['ds'].min()).days: the whole days
\* of the Timedelta
data_span_days(ds) == (MaxOf(Stamps(ds)) - MinOf(Stamps(ds))) \div 2

YearlyAtLeast(ds) == data_span_days(ds) >= YearDays
yearly_seasonality(ds) == data_span_days(ds) > YearDays

ProphetConfig(yearly) ==
    [daily_seasonality |-> FALSE, weekly_seasonality |-> TRUE, yearly_seasonality |-> yearly]

\* What a call of the delegated capability may do: fail, or fit one of these.
Shapes == {"growth", "fromzero"}
Outcomes == Shapes \cup {"failure"}

\* m.fit(historical_data): Prophet refuses fewer than two rows ("Dataframe has less
\* than 2 non-NaN rows"); any fit may also fail for a reason of its own.
FitRaises(ds, outcome) == Len(ds) < 2 \/ outcome = "failure"

\* Prophet keeps the distinct dates of the history, sorted
history_dates(ds) ==
    LET RECURSIVE Asc(_)
        Asc(S) == IF S = {} THEN <<>> ELSE <<MinOf(S)>> \o Asc(S \ {MinOf(S)})
    IN  Asc(Stamps(ds))

\* m.make_future_dataframe(periods=days): date_range(periods=days+1) raises for a
\* negative count; the history's dates, then one date per day after the last
MakeFutureRaises(days) == days + 1 < 0

make_future_dataframe(ds, days) ==
    LET hd == history_dates(ds)
        last == hd[Len(hd)]
    IN  hd \o [k \in 1..(IF days > 0 THEN days ELSE 0) |-> last + 2 * k]

\* m.predict(future): the estimate of row i (1-based) of the combined frame, of
\* which the first u rows are the history's
Yhat(shape, i, u) ==
    IF i <= u THEN (IF shape = "growth" THEN 90 ELSE 1)
    ELSE IF shape = "growth" THEN 100 + 50 * (i - u - 1)
    ELSE 5 * (i - u - 1)

predict(shape, future, u) ==
    [i \in DOMAIN future |-> [ds |-> future[i], yhat |-> Yhat(shape, i, u)]]

\* n digits of the long division of r by f
RECURSIVE DivDigits(_, _, _)
DivDigits(r, f, n) ==
    IF n = 0 THEN [q |-> 0, r |-> r]
    ELSE LET prev == DivDigits(r, f, n - 1)
         IN  [q |-> prev.q * 10 + (prev.r * 10) \div f, r |-> (prev.r * 10) % f]

\* round(((last - first) / (first + 1e-6)) * 100, 2) for estimates >= 0: sign, whole
\* percent and hundredths.  (last-first)*10^8 / (first*10^6 + 1) percent, by long
\* division; the denominator is odd, so no quotient lies on a rounding tie.
TrendCalc(first, last) ==
    LET f == first * 1000000 + 1
        d == Abs(last - first)
        w == DivDigits(d % f, f, 8)
        c == DivDigits(w.r, f, 2)
        g == DivDigits(c.r, f, 1)
        hundredths == c.q + (IF g.q >= 5 THEN 1 ELSE 0)
        whole == (d \div f) * 100000000 + w.q + (IF hundredths = 100 THEN 1 ELSE 0)
        cents == hundredths % 100
    IN  [neg |-> last < first /\ (whole # 0 \/ cents # 0), whole |-> whole, cents |-> cents]

ZeroTrend == [neg |-> FALSE, whole |-> 0, cents |-> 0]

\* forecast['yhat'].iloc[len(historical_data)], as a 1-based row
FirstRow(ds) == Len(ds) + 1

\* forecast.tail(days)
TailRows(rows, n) ==
    IF n = 0 THEN <<>>
    ELSE IF n > 0 THEN SubSeq(rows, (IF Len(rows) > n THEN Len(rows) - n + 1 ELSE 1), Len(rows))
    ELSE SubSeq(rows, (0 - n) + 1, Len(rows))

Raised(exc, calls) == [set |-> TRUE, raised |-> TRUE, exc |-> exc, calls |-> calls]
Returned(res, calls) == [set |-> TRUE, raised |-> FALSE, res |-> res, calls |-> calls]

ForecastResult(preds, trend, mode) ==
    [predictions |-> preds, trend_percentage |-> trend, seasonality_mode |-> mode]

\* CashFlowForecaster.forecast(historical_data, days), forecaster.py:13-46, on the
\* parsed dates ds of a non-empty history
forecast(ds, days, outcome) ==
    LET yearly == yearly_seasonality(ds)
        calls == <<ProphetConfig(yearly)>>
    IN  IF FitRaises(ds, outcome) THEN Raised("fit", calls)
        ELSE IF MakeFutureRaises(days) THEN Raised("ValueError", calls)
        ELSE LET future == make_future_dataframe(ds, days)
                 fc == predict(outcome, future, Len(history_dates(ds)))
             IN  IF FirstRow(ds) > Len(fc) THEN Raised("IndexError", calls)
                 ELSE Returned(
                        ForecastResult(TailRows(fc, days),
                                       TrendCalc(fc[FirstRow(ds)].yhat, fc[Len(fc)].yhat),
                                       IF yearly THEN "yearly" ELSE "weekly"),
                        calls)

\* CashFlowForecaster._generate_fallback_forecast(days), forecaster.py:48-66; now is
\* datetime.now() in whole days
generate_fallback_forecast(days, now) ==
    ForecastResult(
        [i \in 1..(IF days > 0 THEN days ELSE 0) |->
            [ds |-> now + i, yhat |-> 1000, yhat_lower |-> 800, yhat_upper |-> 1200]],
        ZeroTrend, "fallback")

----------------------------------------------------------------------------
(* predict_forecast, main.py:104-139 *)

\* The dates sent: midnight of day 0, noon of day 365, midnight of day 366, and a
\* text that is no date.  A history is any sequence of the dated transactions, or
\* the one whose date does not parse.
ForecastDates == {DateStr(0, 0), DateStr(YearDays, 1), DateStr(YearDays + 1, 0)}
ForecastTransactions == {Transaction(None, 1, d) : d \in ForecastDates}
ForecastHistories ==
    SeqsUpTo(ForecastTransactions, MaxHist) \cup {<<Transaction(None, 1, BadDate)>>}
Days == (0 - MaxNegDays)..MaxDays

EmptyResult == ForecastResult(<<>>, ZeroTrend, "none")

\* one stream: main.py:111-117 (income), 120-126 (expense)
ProcessHistory(hist, days, outcome) ==
    IF hist = <<>> THEN Returned(EmptyResult, <<>>)
    ELSE IF \E i \in DOMAIN hist : ~hist[i].date.ok THEN Raised("to_datetime", <<>>)
    ELSE forecast([i \in DOMAIN hist |-> ToDatetime(hist[i].date)], days, outcome)

SeasonalityOfExpense(inc, exp) == exp.seasonality_mode
ReportedSeasonality(inc, exp) == inc.seasonality_mode

ForecastOk(biz, inc, exp) ==
    [status |-> "returned",
     keys |-> {"business_id", "income_forecast", "income_trend", "expense_forecast",
               "expense_trend", "seasonality", "message"},
     business_id |-> biz,
     income_forecast |-> inc.predictions,
     income_trend |-> inc.trend_percentage,
     expense_forecast |-> exp.predictions,
     expense_trend |-> exp.trend_percentage,
     seasonality |-> ReportedSeasonality(inc, exp),
     message |-> "Advanced forecast generated successfully"]

ForecastErrorPayload(exc) ==
    [status |-> "returned", keys |-> {"error", "message"}, error |-> exc,
     message |-> "Failed to generate forecast"]

\* what one stream can come to, over what the delegated capability may do
StreamResults(hist, days) == {ProcessHistory(hist, days, o) : o \in Outcomes}

\* main.py:137-139, except Exception as e
ForecastReraise(exc) == Escaped(exc)
ForecastExcept(exc) == ForecastErrorPayload(exc)

PredictForecast ==
    /\ Idle
    /\ \E inc \in ForecastHistories, exp \in ForecastHistories, days \in Days :
        \E ri \in StreamResults(inc, days) :
          \E re \in (IF ri.raised THEN {Unset} ELSE StreamResults(exp, days)) :
            /\ request' = [op |-> "forecast", business_id |-> "b1",
                           income_history |-> inc, expense_history |-> exp, days |-> days]
            /\ income_res' = ri
            /\ expense_res' = re
            /\ prophet_calls' = ri.calls \o (IF re.set THEN re.calls ELSE <<>>)
            /\ raised' = IF ri.raised THEN Some(ri.exc)
                         ELSE IF re.raised THEN Some(re.exc)
                         ELSE None
            /\ response' = IF ri.raised THEN ForecastExcept(ri.exc)
                           ELSE IF re.raised THEN ForecastExcept(re.exc)
                           ELSE ForecastOk("b1", ri.res, re.res)
            /\ UNCHANGED categorizer_model

----------------------------------------------------------------------------
(* predict_category, main.py:59-102 *)

LowerChar(c) == IF c = "P" THEN "p" ELSE IF c = "A" THEN "a" ELSE c
\* str.lower()
Lower(s) == [i \in DOMAIN s |-> LowerChar(s[i])]

\* w in desc
Contains(desc, w) ==
    \E i \in 1..(Len(desc) - Len(w) + 1) : SubSeq(desc, i, i + Len(w) - 1) = w

\* main.py:71-76, the rules in the order of the if/elif chain
HeuristicRules ==
    << [category |-> "rent",
        words |-> {<<"r","e","n","t">>, <<"l","e","a","s","e">>, <<"o","f","f","i","c","e">>}],
       [category |-> "salaries",
        words |-> {<<"s","a","l","a","r","y">>, <<"w","a","g","e">>, <<"p","a","y">>,
                   <<"s","t","a","f","f">>}],
       [category |-> "stock",
        words |-> {<<"s","t","o","c","k">>, <<"i","n","v","e","n","t","o","r","y">>,
                   <<"b","u","y">>, <<"p","u","r","c","h","a","s","e">>}],
       [category |-> "transport",
        words |-> {<<"u","b","e","r">>, <<"f","u","e","l">>,
                   <<"t","r","a","n","s","p","o","r","t">>, <<"t","a","x","i">>}],
       [category |-> "utilities",
        words |-> {<<"e","l","e","c","t","r","i","c">>, <<"w","a","t","e","r">>,
                   <<"b","i","l","l">>, <<"p","o","w","e","r">>}],
       [category |-> "marketing",
        words |-> {<<"a","d">>, <<"m","a","r","k","e","t","i","n","g">>,
                   <<"f","a","c","e","b","o","o","k">>, <<"g","o","o","g","l","e">>,
                   <<"p","r","o","m","o">>}] >>

\* any(w in desc for w in [...])
RuleMatches(rule, desc) == \E w \in rule.words : Contains(desc, w)

RECURSIVE FirstMatch(_, _)
FirstMatch(rules, desc) ==
    IF rules = <<>> THEN "other"
    ELSE IF RuleMatches(Head(rules), desc) THEN Head(rules).category
    ELSE FirstMatch(Tail(rules), desc)

\* main.py:69-76 for one description that is a string
HeuristicNoLower(text) == FirstMatch(HeuristicRules, text)
HeuristicCategory(text) == FirstMatch(HeuristicRules, Lower(text))

\* confidences are in hundredths
HeuristicConfidence == 40
DefaultConfidence == 80

Prediction(desc, cat, conf) ==
    [description |-> desc, suggested_category |-> cat, confidence |-> conf]

CategoryOk(results) ==
    [status |-> "returned", keys |-> {"predictions"}, predictions |-> results]

HasNone(txs) == \E i \in DOMAIN txs : ~txs[i].description.some

\* main.py:66-82: tx.description.lower() raises AttributeError on None, and nothing
\* in the handler catches it
HeuristicBranch(txs) ==
    IF HasNone(txs) THEN Escaped("AttributeError")
    ELSE CategoryOk([i \in DOMAIN txs |->
            Prediction(txs[i].description, HeuristicCategory(txs[i].description.val),
                       HeuristicConfidence)])

\* main.py:83-100 with the pipeline of train_categorizer.py:55-58: the vectorizer
\* lowercases each document, so None raises in predict; labels are what the
\* classifier answered, probs the largest probability of each item when
\* predict_proba answers
ModelBranch(txs, model, labels, probs) ==
    IF HasNone(txs) THEN Escaped("AttributeError")
    ELSE CategoryOk([i \in DOMAIN txs |->
            Prediction(txs[i].description, labels[i],
                       IF model.proba THEN probs[i] ELSE DefaultConfidence)])

Labels == {"rent", "stock"}
MaxProbs == {50, 100}
Classifiers == {Some([proba |-> TRUE]), Some([proba |-> FALSE])}

PredictCategoryFrom(batches) ==
    /\ Idle
    /\ \E txs \in batches :
        /\ request' = [op |-> "category", transactions |-> txs]
        /\ IF categorizer_model = None
           THEN response' = HeuristicBranch(txs)
           ELSE \E labels \in [DOMAIN txs -> Labels] :
                  \E probs \in [DOMAIN txs ->
                                  IF categorizer_model.val.proba THEN MaxProbs ELSE {DefaultConfidence}] :
                    response' = ModelBranch(txs, categorizer_model.val, labels, probs)
        /\ raised' = IF HasNone(txs) THEN Some("AttributeError") ELSE None
        /\ income_res' = Unset
        /\ expense_res' = Unset
        /\ prophet_calls' = <<>>
        /\ UNCHANGED categorizer_model

CategoryTransaction(desc) == Transaction(desc, 1, DateStr(0, 0))

BatchDescriptions == {None, Some(<<>>), Some(<<"P","a","y">>), Some(<<"a","d">>)}
CategorizeBatches ==
    SeqsUpTo({CategoryTransaction(d) : d \in BatchDescriptions}, MaxBatch)

PredictCategory == PredictCategoryFrom(CategorizeBatches)

\* one transaction whose description is any text of up to MaxDescLen characters
Chars == {"a", "d", "p", "y", "P"}
SingleBatches ==
    {<<CategoryTransaction(Some(t))>> : t \in SeqsUpTo(Chars, MaxDescLen)}

CategorizeOne == PredictCategoryFrom(SingleBatches)

----------------------------------------------------------------------------

\* main.py:18-25: the classifier is loaded once, when models/categorizer.joblib
\* exists and loads, and stays None otherwise
Init ==
    /\ categorizer_model \in {None} \cup Classifiers
    /\ request = [op |-> "none"]
    /\ response = NoResponse
    /\ income_res = Unset
    /\ expense_res = Unset
    /\ prophet_calls = <<>>
    /\ raised = None

InitNoModel == Init /\ categorizer_model = None

\* The response is serialized and everything request-scoped is discarded; the
\* classifier stays as loaded.
Respond ==
    /\ ~Idle
    /\ request' = [op |-> "none"]
    /\ response' = NoResponse
    /\ income_res' = Unset
    /\ expense_res' = Unset
    /\ prophet_calls' = <<>>
    /\ raised' = None
    /\ UNCHANGED categorizer_model

Next == PredictCategory \/ PredictForecast \/ PredictInsights \/ Respond

Spec == Init /\ [][Next]_vars

NextAnalytics == PredictForecast \/ PredictInsights \/ Respond

SpecAnalytics == InitNoModel /\ [][NextAnalytics]_vars

NextCategory == PredictCategory \/ Respond

SpecCategory == Init /\ [][NextCategory]_vars

NextHeuristic == CategorizeOne \/ Respond

SpecHeuristic == InitNoModel /\ [][NextHeuristic]_vars

NextForecast == PredictForecast \/ Respond

SpecForecast == InitNoModel /\ [][NextForecast]_vars

NextInsights == PredictInsights \/ Respond

SpecInsights == InitNoModel /\ [][NextInsights]_vars

----------------------------------------------------------------------------
(* Properties *)

IsInsights == request.op = "insights"
IsForecast == request.op = "forecast"
IsCategory == request.op = "category"

\* the categories of an Insights request and what each sums to
RequestCategories ==
    {request.expense_history[i].description.val :
        i \in {j \in DOMAIN request.expense_history :
                  request.expense_history[j].description.some}}

RequestCategoryAmount(cat) ==
    LET h == request.expense_history
        RECURSIVE Upto(_)
        Upto(n) == IF n = 0 THEN 0
                   ELSE Upto(n - 1) + (IF h[n].description = Some(cat) THEN h[n].amount ELSE 0)
    IN  Upto(Len(h))

RequestTotal ==
    LET h == request.expense_history
        RECURSIVE Upto(_)
        Upto(n) == IF n = 0 THEN 0
                   ELSE Upto(n - 1) + (IF h[n].description.some THEN h[n].amount ELSE 0)
    IN  Upto(Len(h))

\* amt / total > 30%
ShareOver30(amt, total) ==
    \/ total > 0 /\ 10 * amt > 3 * total
    \/ total < 0 /\ 10 * amt < 3 * total

AnomaliesFor(cat) ==
    Cardinality({i \in DOMAIN response.insights :
                    /\ response.insights[i].type = "anomaly"
                    /\ response.insights[i].category = Some(cat)})

\* C1: for every non-empty expense history with signed amounts, the insight list
\* holds exactly one "anomaly" insight for each category whose summed amount is
\* more than 30% of the total spend of the request, and none for a category whose
\* share is 30% or less.
C1_AnomalyIffShareOver30 ==
    (IsInsights /\ request.expense_history # <<>>) =>
        \A cat \in RequestCategories :
            AnomaliesFor(cat) =
                (IF ShareOver30(RequestCategoryAmount(cat), RequestTotal) THEN 1 ELSE 0)

\* C2: whenever the expense history is non-empty the insight list is not empty,
\* and when it holds no anomaly it is exactly one "info" insight; for every
\* combination of signed amounts, totals of zero or less included.
C2_InsightsNeverEmpty ==
    (IsInsights /\ request.expense_history # <<>>) =>
        /\ response.insights # <<>>
        /\ (\A i \in DOMAIN response.insights : response.insights[i].type # "anomaly")
              => response.insights = <<InfoInsight>>

\* the dates of a history all parse
DatesOk(hist) == \A i \in DOMAIN hist : hist[i].date.ok

\* what FallbackForecastGenerator answers for a horizon, whatever the day
FallbackShaped(preds, trend, days) ==
    /\ Len(preds) = days
    /\ \A i \in DOMAIN preds :
          \E now \in {preds[i].ds - i} : preds[i] = generate_fallback_forecast(days, now).predictions[i]
    /\ trend = generate_fallback_forecast(days, 0).trend_percentage

\* C3: when a non-empty history is too small for the model to be fitted (the
\* fit raises for insufficient data), the request is answered with the fallback
\* forecast (the requested number of fixed points, trend 0.0, seasonality_mode
\* "fallback") and not with an error-shaped response.
C3_FallbackOnInsufficientData ==
    (/\ IsForecast
     /\ request.days >= 1
     /\ request.income_history # <<>>
     /\ DatesOk(request.income_history)
     /\ Len(request.income_history) < 2) =>
        /\ "error" \notin response.keys
        /\ response.status = "returned"
        /\ FallbackShaped(response.income_forecast, response.income_trend, request.days)
        /\ response.seasonality = generate_fallback_forecast(request.days, 0).seasonality_mode

\* the two streams of a Forecast request: the history sent and what forecast()
\* came to
Streams ==
    {[hist |-> request.income_history, res |-> income_res],
     [hist |-> request.expense_history, res |-> expense_res]}

\* forecast() was called on the stream and its fit succeeded
Fitted(s) ==
    /\ s.res.set
    /\ s.hist # <<>>
    /\ ~(s.res.raised /\ s.res.exc \in {"to_datetime", "fit"})

\* max(date) - min(date), in half days
SpanHalfDays(hist) ==
    LET t == {ToDatetime(hist[i].date) : i \in DOMAIN hist}
    IN  CHOOSE d \in {a - b : a \in t, b \in t} : \A e \in {a - b : a \in t, b \in t} : e <= d

ConfigWeeklyNotDaily ==
    \A i \in DOMAIN prophet_calls :
        prophet_calls[i].weekly_seasonality /\ ~prophet_calls[i].daily_seasonality

\* C4 as stated: for every non-empty series on which fitting succeeds,
\* seasonality_mode is "yearly" iff max(date) - min(date) exceeds 365 days and
\* "weekly" otherwise; weekly seasonality is always enabled and daily seasonality
\* always disabled.  (Stated for the requests that were answered with a
\* forecast.)
C4_YearlyIffSpanOver365Days ==
    (IsForecast /\ ~raised.some) =>
        /\ ConfigWeeklyNotDaily
        /\ \A s \in Streams :
              (Fitted(s) /\ ~s.res.raised) =>
                  s.res.res.seasonality_mode =
                      (IF SpanHalfDays(s.hist) > 2 * YearDays THEN "yearly" ELSE "weekly")

\* C4 amended: seasonality_mode is "yearly" iff the whole days of
\* max(date) - min(date) exceed 365, that is iff the span is at least 366 days,
\* and "weekly" otherwise; weekly seasonality is always enabled and daily
\* seasonality always disabled.
C4_YearlyIffWholeDaysOver365 ==
    IsForecast =>
        /\ ConfigWeeklyNotDaily
        /\ \A s \in Streams :
              (Fitted(s) /\ ~s.res.raised) =>
                  s.res.res.seasonality_mode =
                      (IF SpanHalfDays(s.hist) >= 2 * (YearDays + 1) THEN "yearly" ELSE "weekly")

\* C4 witness: one request whose income spans 365 days and a half and came out
\* "weekly" and whose expense spans 366 days and came out "yearly".
C4_Witness ==
    /\ IsForecast
    /\ income_res.set /\ ~income_res.raised /\ request.income_history # <<>>
    /\ expense_res.set /\ ~expense_res.raised /\ request.expense_history # <<>>
    /\ SpanHalfDays(request.income_history) = 2 * YearDays + 1
    /\ income_res.res.seasonality_mode = "weekly"
    /\ SpanHalfDays(request.expense_history) = 2 * YearDays + 2
    /\ expense_res.res.seasonality_mode = "yearly"
    /\ Len(prophet_calls) = 2

\* the history holds two dates at least, so that the fit has a span of time to
\* work on
TwoDates(hist) == \E i, j \in DOMAIN hist : hist[i].date # hist[j].date

\* C5: for each stream and every horizon a length can equal (days >= 0), the
\* predictions are as many as the requested days when the history is non-empty
\* and fitting succeeds, and none (trend 0.0, mode "none") when it is empty.
\* (Stated for the fitted histories of two dates or more.)
C5_PredictionsLength ==
    (IsForecast /\ request.days >= 0) =>
        \A s \in Streams :
            /\ (s.res.set /\ s.hist = <<>>) =>
                  (~s.res.raised /\ s.res.res = ForecastResult(<<>>, ZeroTrend, "none"))
            /\ (Fitted(s) /\ TwoDates(s.hist)) =>
                  (~s.res.raised /\ Len(s.res.res.predictions) = request.days)

\* C6: for every non-empty history (several points may share a date) and
\* horizon, trend_percentage is ((last - first) / (first + 1e-6)) * 100 rounded to
\* 2 decimals, first being the estimate of the first predicted day after the end
\* of the history and last that of the last predicted day.  (Stated for the
\* fitted histories of two dates or more, in the requests that were answered
\* with a forecast.)
C6_TrendFromFirstPredictedDay ==
    (IsForecast /\ ~raised.some) =>
        \A s \in Streams :
            (Fitted(s) /\ TwoDates(s.hist) /\ ~s.res.raised /\ s.res.res.predictions # <<>>) =>
                LET p == s.res.res.predictions
                IN  s.res.res.trend_percentage = TrendCalc(p[1].yhat, p[Len(p)].yhat)

\* the rules as the design lists them: the order, and the keywords of each
RuleOrder == <<"rent", "salaries", "stock", "transport", "utilities", "marketing">>

Keywords(cat) ==
    CASE cat = "rent" ->
           {<<"r","e","n","t">>, <<"l","e","a","s","e">>, <<"o","f","f","i","c","e">>}
      [] cat = "salaries" ->
           {<<"s","a","l","a","r","y">>, <<"w","a","g","e">>, <<"p","a","y">>,
            <<"s","t","a","f","f">>}
      [] cat = "stock" ->
           {<<"s","t","o","c","k">>, <<"i","n","v","e","n","t","o","r","y">>,
            <<"b","u","y">>, <<"p","u","r","c","h","a","s","e">>}
      [] cat = "transport" ->
           {<<"u","b","e","r">>, <<"f","u","e","l">>,
            <<"t","r","a","n","s","p","o","r","t">>, <<"t","a","x","i">>}
      [] cat = "utilities" ->
           {<<"e","l","e","c","t","r","i","c">>, <<"w","a","t","e","r">>,
            <<"b","i","l","l">>, <<"p","o","w","e","r">>}
      [] cat = "marketing" ->
           {<<"a","d">>, <<"m","a","r","k","e","t","i","n","g">>,
            <<"f","a","c","e","b","o","o","k">>, <<"g","o","o","g","l","e">>,
            <<"p","r","o","m","o">>}

\* w occurs in text, letter case apart
OccursIgnoringCase(w, text) ==
    \E k \in 0..(Len(text) - Len(w)) :
        \A j \in 1..Len(w) : LowerChar(text[k + j]) = LowerChar(w[j])

RuleApplies(n, text) == \E w \in Keywords(RuleOrder[n]) : OccursIgnoringCase(w, text)

\* the category the rules give a text
RuleCategory(text, cat) ==
    \/ /\ cat = "other"
       /\ \A n \in DOMAIN RuleOrder : ~RuleApplies(n, text)
    \/ \E n \in DOMAIN RuleOrder :
          /\ cat = RuleOrder[n]
          /\ RuleApplies(n, text)
          /\ \A m \in 1..(n - 1) : ~RuleApplies(m, text)

\* C7: with no classifier loaded, for every description the category is that of
\* the first rule, in the order rent, salaries, stock, transport, utilities,
\* marketing, one of whose keywords is a case-insensitive substring of the
\* description, "other" if no rule matches; the confidence is always 0.4.
C7_HeuristicFirstRuleWins ==
    (IsCategory /\ categorizer_model = None
       /\ \A i \in DOMAIN request.transactions : request.transactions[i].description.some) =>
        /\ response.status = "returned"
        /\ DOMAIN response.predictions = DOMAIN request.transactions
        /\ \A i \in DOMAIN request.transactions :
              /\ RuleCategory(request.transactions[i].description.val,
                              response.predictions[i].suggested_category)
              /\ response.predictions[i].confidence = 40

\* C7 witness: "PayAd"-like text, in which a keyword of the last rule and, in
\* capitals, one of the second both occur, was given the second rule's category.
C7_Witness ==
    /\ IsCategory /\ categorizer_model = None
    /\ request.transactions = <<CategoryTransaction(Some(<<"a", "d", "P", "a", "y">>))>>
    /\ response.status = "returned"
    /\ response.predictions[1].suggested_category = "salaries"

\* C8: for every request the schema accepts (a description may be absent), with
\* or without a classifier, the result has exactly one entry per transaction, in
\* order, each with that transaction's description and a confidence in [0,1].
C8_OneEntryPerTransaction ==
    IsCategory =>
        /\ response.status = "returned"
        /\ Len(response.predictions) = Len(request.transactions)
        /\ \A i \in DOMAIN request.transactions :
              /\ response.predictions[i].description = request.transactions[i].description
              /\ response.predictions[i].confidence \in 0..100

IncomeMode ==
    IF request.income_history = <<>> THEN "none"
    ELSE IF SpanHalfDays(request.income_history) >= 2 * (YearDays + 1) THEN "yearly"
    ELSE "weekly"

\* C10: in every successful Forecast response the seasonality field is the
\* income stream's seasonality_mode ("none" when income_history is empty): it is
\* a function of the income history alone, so the expense stream's own mode is
\* never reported.
C10_SeasonalityIsIncomeMode ==
    (IsForecast /\ ~raised.some) => response.seasonality = IncomeMode

\* C10 witness: the expense stream came out "yearly" and the response says
\* "weekly".
C10_Witness ==
    /\ IsForecast /\ ~raised.some
    /\ expense_res.res.seasonality_mode = "yearly"
    /\ income_res.res.seasonality_mode = "weekly"
    /\ response.seasonality = "weekly"

========================================================================NotC4_Witness == ~C4_Witness
=====
